---- MODULE Spec2Model ----
(***************************************************************************)
(* The `machine` crate: procedural macros that turn a declarative state    *)
(* machine description into dispatch code (transitions!), a graphviz file  *)
(* and wrapper methods (methods!).                                         *)
(*                                                                         *)
(* Part A models a transitions! invocation and the run-time behaviour of   *)
(* the dispatch methods it generates.  Part B models the methods! parser   *)
(* and code generator of src/methods.rs.                                   *)
(***************************************************************************)
EXTENDS Integers, Sequences, FiniteSets, TLC

VARIABLES
    block,      \* the edges of the transitions! block being compiled
    tpc,        \* "source", then "failed" (parse error) or "compiled"
    stream,     \* generated dispatch methods: message name -> match arms
    dot,        \* content of target/<name>.dot, a sequence of lines
    t,          \* the machine value (`let mut t = Traffic::...`)
    last,       \* the last dispatch: where it started, what the state fn returned
    trace,      \* messages dispatched so far in the documented usage run
    rs,         \* content of target/<name>.rs, a sequence of written streams
    minput,     \* the tokens of the methods! invocation
    mpc,        \* "source", then "failed" (parse error) or "generated"
    ast,        \* what parsing minput gave: the Methods value or the error
    code,       \* token stream returned by methods!: state impls and wrappers
    out,        \* the last call of a generated wrapper and its result
    mach,       \* the machine! invocation: input, progress, file, returned code
    art         \* two macro invocations by name and the file paths each wrote

avars == <<block, tpc, stream, dot, last, trace>>

mvars == <<minput, mpc, ast, code, out>>

xvars == <<mach, art>>

vars ==
    <<block, tpc, stream, dot, t, last, trace, rs, minput, mpc, ast, code, out,
      mach, art>>

----------------------------------------------------------------------------
(* Bounds *)

MaxEdges == 2       \* edges per generated transitions! block
MaxCount == 1       \* largest Green.count a generic state function returns
MaxTrace == 8       \* messages dispatched in one usage run
MaxName == 2        \* characters in a machine name

----------------------------------------------------------------------------
(* The Traffic machine of the crate documentation *)

MachineName == "Traffic"

States == {"Green", "Orange", "Red"}

Messages == {"Advance", "PassCar"}

\* A value of the generated enum: the active variant and, for Green, its count.
Value(v, c) == [variant |-> v, count |-> c]

green(count) == Value("Green", count)

orange == Value("Orange", 0)

red == Value("Red", 0)

error == Value("Error", 0)

\* What a state function hands back to the dispatch arm: the payload struct
\* of one state (`Orange {}`) or a value of the enum (`Traffic::orange()`).
Payload(s, c) == [is |-> "struct", variant |-> s, count |-> c]

Enum(v) == [is |-> "enum", variant |-> v.variant, count |-> v.count]

NoRet == [is |-> "none", variant |-> "-", count |-> 0]

NoValue == Value("-", 0)

Advance == [name |-> "Advance", count |-> 0]

PassCar(c) == [name |-> "PassCar", count |-> c]

\* PassCar payloads used by the documented usage run
CarCounts == {1, 2, 7}

Edge(s, m, e) == [start |-> s, message |-> m, end |-> e]

\* transitions!(Traffic, [(Green, Advance) => Orange, ...]) of the first example
AdvanceEdges ==
    << Edge("Green", "Advance", <<"Orange">>),
       Edge("Orange", "Advance", <<"Red">>),
       Edge("Red", "Advance", <<"Green">>) >>

\* ... and with the PassCar edge added
TrafficEdges ==
    << Edge("Green", "Advance", <<"Orange">>),
       Edge("Orange", "Advance", <<"Red">>),
       Edge("Red", "Advance", <<"Green">>),
       Edge("Green", "PassCar", <<"Green", "Orange">>) >>

----------------------------------------------------------------------------
(* Generated dispatch code *)

Arm(p, k, tgt) == [pat |-> p, kind |-> k, target |-> tgt]

\* `_ => Traffic::Error`
ErrorArm == Arm("_", "error", "-")

\* on_advance with the arm of the last source state written as a catch-all
on_advance_catch_all ==
    << Arm("Green", "wrap", "Orange"),
       Arm("Orange", "wrap", "Red"),
       Arm("_", "wrap", "Green"),
       ErrorArm >>

\* on_advance with Red staying Red
on_advance_red_stays ==
    << Arm("Green", "wrap", "Orange"),
       Arm("Orange", "wrap", "Red"),
       Arm("Red", "wrap", "Red"),
       ErrorArm >>

\* The documented body of the generated Traffic::on_advance
on_advance ==
    << Arm("Green", "wrap", "Orange"),
       Arm("Orange", "wrap", "Red"),
       Arm("Red", "wrap", "Green"),
       ErrorArm >>

\* on_pass_car with an arm for the end state Orange as well
on_pass_car_end_states ==
    << Arm("Green", "forward", "-"),
       Arm("Orange", "forward", "-"),
       ErrorArm >>

\* The documented body of the generated Traffic::on_pass_car
on_pass_car ==
    << Arm("Green", "forward", "-"),
       ErrorArm >>

\* The messages of a block, i.e. the generated on_<message> methods
DeclaredMessages(es) == { es[i].message : i \in DOMAIN es }

RECURSIVE MovesOf(_, _)
\* The arms of one message, in declaration order: a single end state is
\* wrapped inline, several end states leave the choice to the state function.
MovesOf(es, m) ==
    IF es = <<>> THEN <<>>
    ELSE LET e == Head(es)
             rest == MovesOf(Tail(es), m)
         IN IF e.message # m THEN rest
            ELSE IF Len(e.end) = 1
                 THEN <<Arm(e.start, "wrap", e.end[1])>> \o rest
                 ELSE <<Arm(e.start, "forward", "-")>> \o rest

\* Transitions::generate: one total dispatch method per message
generate(es) ==
    [m \in DeclaredMessages(es) |-> MovesOf(es, m) \o <<ErrorArm>>]

\* The dispatch methods a block compiles to.
GeneratedStream(es) ==
    IF es = TrafficEdges
    THEN [m \in {"Advance", "PassCar"} |->
             IF m = "Advance" THEN on_advance ELSE on_pass_car]
    ELSE IF es = AdvanceEdges
    THEN [m \in {"Advance"} |-> on_advance]
    ELSE generate(es)

\* `match self { ... }`: the index of the first arm whose pattern matches
SelectArm(arms, self) ==
    CHOOSE i \in DOMAIN arms :
        /\ arms[i].pat \in {self.variant, "_"}
        /\ \A j \in 1..(i - 1) : arms[j].pat \notin {self.variant, "_"}

\* What a state function called by an arm may return: the payload struct of
\* the end state for a wrapping arm, any value of the enum otherwise.
Structs(s) == IF s = "Green" THEN { green(c) : c \in 0..MaxCount } ELSE { Value(s, 0) }

AllValues == UNION { Structs(s) : s \in States } \cup {error}

Returns(arm) ==
    CASE arm.kind = "wrap" -> { Payload(v.variant, v.count) : v \in Structs(arm.target) }
      [] arm.kind = "forward" -> { Enum(v) : v \in AllValues }
      [] OTHER -> {NoRet}

\* The value of the selected arm's expression, r being what the state
\* function returned.
RunArm(arm, r) ==
    CASE arm.kind = "wrap" -> Value(arm.target, r.count)
      [] arm.kind = "forward" -> Value(r.variant, r.count)
      [] OTHER -> error

----------------------------------------------------------------------------
(* Graph export *)

DotLine(s, e, m) == <<s, "->", e, "[", "label", "=", m, "]", ";">>

RECURSIVE EdgeLines(_)
\* one line per end state of every edge, in declaration order
EdgeLines(es) ==
    IF es = <<>> THEN <<>>
    ELSE LET e == Head(es)
         IN [i \in 1..Len(e.end) |-> DotLine(e.start, e.end[i], e.message)]
            \o EdgeLines(Tail(es))

\* Transitions::render_dot
render_dot(es) ==
    << <<"digraph", MachineName, "{">> >> \o EdgeLines(es) \o << <<"}">> >>

\* traffic.dot with the end states of the PassCar edge in the wrong order
TrafficDot_swapped ==
    << <<"digraph", "Traffic", "{">>,
       DotLine("Green", "Orange", "Advance"),
       DotLine("Orange", "Red", "Advance"),
       DotLine("Red", "Green", "Advance"),
       DotLine("Green", "Orange", "PassCar"),
       DotLine("Green", "Green", "PassCar"),
       <<"}">> >>

\* The documented target/traffic.dot
TrafficDot ==
    << <<"digraph", "Traffic", "{">>,
       DotLine("Green", "Orange", "Advance"),
       DotLine("Orange", "Red", "Advance"),
       DotLine("Red", "Green", "Advance"),
       DotLine("Green", "Green", "PassCar"),
       DotLine("Green", "Orange", "PassCar"),
       <<"}">> >>

RenderedDot(es) == IF es = TrafficEdges THEN TrafficDot ELSE render_dot(es)

----------------------------------------------------------------------------
(* Documented state functions of the Traffic example *)

U8Add(a, b) == (a + b) % 256

\* impl Green / Orange / Red { pub fn on_advance(self, _: Advance) }
state_on_advance(self) ==
    CASE self.variant = "Green" -> Payload("Orange", 0)
      [] self.variant = "Orange" -> Payload("Red", 0)
      [] OTHER -> Payload("Green", 0)

\* on_pass_car counting only the cars of the message
green_on_pass_car_no_sum(self, input) ==
    LET count == input.count
    IN IF count >= 10 THEN Enum(orange) ELSE Enum(green(count))

\* impl Green { pub fn on_pass_car(self, input: PassCar) -> Traffic }
green_on_pass_car(self, input) ==
    LET count == U8Add(self.count, input.count)
    IN IF count >= 10 THEN Enum(orange) ELSE Enum(green(count))

----------------------------------------------------------------------------
(* Transitions blocks the macro is applied to *)

EndChoices == { <<"Orange">>, <<"Green">>, <<"Green", "Orange">> }

EdgeChoices ==
    { Edge(s, m, e) : s \in States, m \in Messages, e \in EndChoices }

RECURSIVE SeqsUpTo(_, _)
SeqsUpTo(S, n) ==
    IF n = 0 THEN { <<>> }
    ELSE LET shorter == SeqsUpTo(S, n - 1)
         IN shorter \cup { Append(q, x) : q \in shorter, x \in S }

Blocks == (SeqsUpTo(EdgeChoices, MaxEdges) \ { <<>> }) \cup {AdvanceEdges, TrafficEdges}

NoLast == [from |-> NoValue, msg |-> "-", called |-> FALSE, ret |-> NoRet, arm |-> 0]

\* No methods! invocation is part of the run.
MIdle ==
    /\ minput = <<>>
    /\ mpc = "source"
    /\ ast = <<>>
    /\ code = <<>>
    /\ out = [method |-> "-", from |-> NoValue, res |-> <<>>]

\* No machine! invocation is part of the run, and no file path is followed.
NoMachine == [input |-> <<>>, pc |-> "source", file |-> <<>>, ret |-> <<>>]

NoArt == [inv |-> <<>>, paths |-> <<>>]

XIdle == mach = NoMachine /\ art = NoArt

----------------------------------------------------------------------------
(* Actions of Part A *)

TInit ==
    /\ block \in Blocks
    /\ tpc = "source"
    /\ stream = <<>>
    /\ dot = <<>>
    /\ t \in AllValues
    /\ last = NoLast
    /\ trace = <<>>
    /\ rs = <<>>
    /\ MIdle
    /\ XIdle

\* A block with an entry that has no message, `(Green, ) => Orange`
MalformedEdges == <<Edge("Green", "", <<"Orange">>)>>

\* impl Parse for Transitions: every entry is `(State, Message) => Target`
TransitionsParse(es) ==
    \A i \in DOMAIN es : es[i].start # "" /\ es[i].message # "" /\ es[i].end # <<>>

\* The transitions! macro: parse; on an error return it as a compile error,
\* else generate the dispatch methods, write target/<name>.rs and the dot file
\* (File::create truncates both) and return the methods.
transitions ==
    /\ tpc = "source"
    /\ IF TransitionsParse(block)
       THEN /\ tpc' = "compiled"
            /\ stream' = GeneratedStream(block)
            /\ rs' = <<GeneratedStream(block)>>
            /\ dot' = RenderedDot(block)
       ELSE /\ tpc' = "failed"
            /\ UNCHANGED <<stream, rs, dot>>
    /\ UNCHANGED <<block, t, last, trace>>
    /\ UNCHANGED mvars
    /\ UNCHANGED xvars

\* t = t.on_<m>(input), the state functions being any the compiler accepts
Dispatch(m) ==
    /\ tpc = "compiled"
    /\ m \in DOMAIN stream
    /\ LET arms == stream[m]
           i == SelectArm(arms, t)
       IN \E r \in Returns(arms[i]) :
            /\ t' = RunArm(arms[i], r)
            /\ last' = [from |-> t, msg |-> m, called |-> arms[i].kind # "error",
                        ret |-> r, arm |-> i]
    /\ UNCHANGED <<block, tpc, stream, dot, trace, rs>>
    /\ UNCHANGED mvars
    /\ UNCHANGED xvars

TNext ==
    \/ transitions
    \/ \E m \in Messages : Dispatch(m)

Spec == TInit /\ [][TNext]_vars

----------------------------------------------------------------------------
(* The documented usage run: the Traffic block with its documented state   *)
(* functions, starting from Traffic::Green(Green { count: 0 }).            *)

UsageInit ==
    /\ block = TrafficEdges
    /\ tpc = "source"
    /\ stream = <<>>
    /\ dot = <<>>
    /\ t = green(0)
    /\ last = NoLast
    /\ trace = <<>>
    /\ rs = <<>>
    /\ MIdle
    /\ XIdle

UsageInputs == {Advance} \cup { PassCar(c) : c \in CarCounts }

\* state.on_advance(input) / state.on_pass_car(input) as documented
StateFn(m, self, input) ==
    IF m = "Advance" THEN state_on_advance(self) ELSE green_on_pass_car(self, input)

\* t = t.on_advance(Advance) / t = t.on_pass_car(PassCar { count })
Send(input) ==
    /\ tpc = "compiled"
    /\ Len(trace) < MaxTrace
    /\ input.name \in DOMAIN stream
    /\ LET arms == stream[input.name]
           i == SelectArm(arms, t)
           r == IF arms[i].kind = "error" THEN NoRet ELSE StateFn(input.name, t, input)
       IN /\ t' = RunArm(arms[i], r)
          /\ last' = [from |-> t, msg |-> input.name, called |-> arms[i].kind # "error",
                      ret |-> r, arm |-> i]
          /\ trace' = Append(trace, [msg |-> input, to |-> RunArm(arms[i], r)])
    /\ UNCHANGED <<block, tpc, stream, dot, rs>>
    /\ UNCHANGED mvars
    /\ UNCHANGED xvars

UsageNext ==
    \/ transitions
    \/ \E input \in UsageInputs : Send(input)

UsageSpec == UsageInit /\ [][UsageNext]_vars

----------------------------------------------------------------------------
(* Properties of the generated dispatch (Part A) *)

HasEdge(s, m) == \E i \in DOMAIN block : block[i].start = s /\ block[i].message = m

Dispatched == last.msg # "-"

\* C1: dispatching any declared message while the active variant is Error
\* returns Error, so a machine that is Error stays Error at every later step.
C1_ErrorIsSink == [][t.variant = "Error" => t'.variant = "Error"]_vars

C1_Witness ==
    /\ Dispatched
    /\ last.from = error
    /\ HasEdge("Green", last.msg)
    /\ t = error

\* C2: dispatching M in a state S for which no edge (S, M) is declared gives
\* Error and calls no state function.
C2_UndeclaredGivesError ==
    (Dispatched /\ last.from.variant \in States /\ ~HasEdge(last.from.variant, last.msg))
        => (t = error /\ ~last.called)

C2_Witness ==
    /\ Dispatched
    /\ last.from.variant \in States
    /\ ~HasEdge(last.from.variant, last.msg)
    /\ t = error

\* C3: for every declared single-target edge (S, M) => T, dispatching M in S
\* returns the variant T holding exactly what S's state function returned.
C3_SingleTargetWraps ==
    \A i \in DOMAIN block :
        (Dispatched /\ Len(block[i].end) = 1
            /\ last.from.variant = block[i].start /\ last.msg = block[i].message)
        => (last.called /\ t.variant = block[i].end[1]
              /\ last.ret = Payload(t.variant, t.count))

\* C4: for every declared multi-target edge (S, M) => [T1, ..., Tn], n >= 2,
\* dispatching M in S returns the value S's state function returned, unmodified.
C4_MultiTargetForwards ==
    \A i \in DOMAIN block :
        (Dispatched /\ Len(block[i].end) >= 2
            /\ last.from.variant = block[i].start /\ last.msg = block[i].message)
        => (last.called /\ last.ret = Enum(t))

\* The value the machine had before the i-th message of the usage run
Before(i) == IF i = 1 THEN green(0) ELSE trace[i - 1].to

TraceStartsWith(ms) ==
    /\ Len(trace) >= Len(ms)
    /\ \A i \in DOMAIN ms : trace[i].msg = ms[i]

\* C5: in the Traffic machine, from Green{count:0}: PassCar{1}, PassCar{2}
\* give Green{count:3}; three Advance calls then visit Orange, Red, Green;
\* PassCar in a state other than Green gives Error, and so does every
\* message after that.
C5_TrafficRun ==
    /\ trace # <<>> => t = trace[Len(trace)].to
    /\ TraceStartsWith(<<PassCar(1), PassCar(2)>>) => trace[2].to = green(3)
    /\ TraceStartsWith(<<PassCar(1), PassCar(2), Advance>>) => trace[3].to = orange
    /\ TraceStartsWith(<<PassCar(1), PassCar(2), Advance, Advance>>) => trace[4].to = red
    /\ TraceStartsWith(<<PassCar(1), PassCar(2), Advance, Advance, Advance>>)
          => trace[5].to = green(0)
    /\ \A i \in DOMAIN trace :
          (trace[i].msg.name = "PassCar" /\ Before(i).variant # "Green")
              => \A j \in i..Len(trace) : trace[j].to = error

C5_Witness ==
    /\ TraceStartsWith(<<PassCar(1), PassCar(2), Advance, Advance, Advance,
                         Advance, PassCar(7), Advance>>)
    /\ trace[6].to = orange
    /\ t = error

\* A line of the dot file read back as (source, target, message)
LineTriple(line) == <<line[1], line[3], line[7]>>

IsEdgeLine(line) ==
    /\ Len(line) = 9
    /\ <<line[2], line[4], line[5], line[6], line[8], line[9]>>
          = <<"->", "[", "label", "=", "]", ";">>

RECURSIVE Triples(_)
\* Every declared edge expanded into one (source, target, message) per target
Triples(es) ==
    IF es = <<>> THEN <<>>
    ELSE LET e == Head(es)
         IN [k \in 1..Len(e.end) |-> <<e.start, e.end[k], e.message>>]
            \o Triples(Tail(es))

\* The lines of the dot file between the opening and the closing line
DotBody == SubSeq(dot, 2, Len(dot) - 1)

\* C6: between `digraph <MachineName> {` and `}` the dot file holds exactly
\* one line per expanded (source, target, message) triple, in declaration
\* order, and no other line.
C6_DotLinesAreEdges ==
    tpc = "compiled" =>
        /\ Len(dot) >= 2
        /\ dot[1] = <<"digraph", MachineName, "{">>
        /\ dot[Len(dot)] = <<"}">>
        /\ \A k \in DOMAIN DotBody : IsEdgeLine(DotBody[k])
        /\ [k \in DOMAIN DotBody |-> LineTriple(DotBody[k])] = Triples(block)

C6_Witness ==
    /\ tpc = "compiled"
    /\ block = TrafficEdges
    /\ Len(dot) = 7

\* The targets the graph shows for (s, m)
GraphTargets(s, m) ==
    { DotBody[k][3] : k \in { j \in DOMAIN DotBody : DotBody[j][1] = s /\ DotBody[j][7] = m } }

\* The arm the dispatch of m takes in state s
TakenArm(s, m) == stream[m][SelectArm(stream[m], Value(s, 0))]

\* C7: the graph has a line from S labelled M exactly when dispatching M in S
\* does not fall back to Error, and for a single-target edge the graph's
\* target for (S, M) is the variant the dispatch wraps the result in.
C7_GraphMatchesDispatch ==
    tpc = "compiled" =>
        /\ \A s \in States, m \in DOMAIN stream :
              (GraphTargets(s, m) # {}) <=> (TakenArm(s, m).kind # "error")
        /\ \A i \in DOMAIN block :
              Len(block[i].end) = 1 =>
                  LET a == TakenArm(block[i].start, block[i].message)
                  IN /\ a.kind = "wrap"
                     /\ a.target = block[i].end[1]
                     /\ a.target \in GraphTargets(block[i].start, block[i].message)

----------------------------------------------------------------------------
(* Part B: the methods! macro (src/methods.rs)                             *)
(*                                                                         *)
(* Tokens.  A token is a word (identifier or keyword), a punctuation, a    *)
(* literal, or a delimited group holding its own token sequence.           *)

Tk(k, v) == [k |-> k, v |-> v, c |-> <<>>]

Id(v) == Tk("ident", v)

Pn(v) == Tk("punct", v)

Lit(v) == Tk("lit", v)

Paren(c) == [k |-> "paren", v |-> "", c |-> c]

Bracket(c) == [k |-> "bracket", v |-> "", c |-> c]

\* Words that syn's Ident parser refuses (`default` is not one of them)
Keywords == {"fn", "unsafe", "const", "extern", "self", "mut", "where", "true", "false"}

\* (Messages are written with ' where syn writes a backquote.)
\* Results of a parse function: where the cursor of the stream is left,
\* whether a nested buffer was dropped with tokens left in it ("unexpected",
\* reported when the macro input has been parsed), the value or the message.
POk(pos, unexp, val) == [ok |-> TRUE, pos |-> pos, unexp |-> unexp, val |-> val, err |-> ""]

PErr(pos, unexp, msg) == [ok |-> FALSE, pos |-> pos, unexp |-> unexp, val |-> <<>>, err |-> msg]

At(toks, pos, k, v) == pos <= Len(toks) /\ toks[pos].k = k /\ toks[pos].v = v

IsGroup(toks, pos, k) == pos <= Len(toks) /\ toks[pos].k = k

\* input.parse::<Ident>() succeeds here
IsIdent(toks, pos) ==
    pos <= Len(toks) /\ toks[pos].k = "ident" /\ toks[pos].v \notin Keywords

\* input.parse::<Type>() succeeds here (a path type of one segment)
IsType(toks, pos) == IsIdent(toks, pos)

\* stream.parse::<Expr>(): a literal or a path of one segment
ParseExpr(c, pos) ==
    IF pos <= Len(c)
       /\ (c[pos].k = "lit"
           \/ (c[pos].k = "ident" /\ c[pos].v \notin (Keywords \ {"true", "false"})))
    THEN POk(pos + 1, FALSE, c[pos].v)
    ELSE PErr(pos, FALSE, "expected expression")

\* impl Parse for ParenVal.  parenthesized! moves the cursor past the group
\* before the content is parsed, and nothing moves it back on an error.
ParenValOf(pos, c, e) ==
    IF e.ok THEN POk(pos + 1, e.pos <= Len(c), e.val)
    ELSE PErr(pos + 1, e.pos <= Len(c), e.err)

ParenVal(toks, pos) ==
    IF IsGroup(toks, pos, "paren")
    THEN ParenValOf(pos, toks[pos].c, ParseExpr(toks[pos].c, 1))
    ELSE PErr(pos, FALSE, "expected parentheses")

DefaultNone == [kind |-> "None", expr |-> ""]

DefaultDefault == [kind |-> "Default", expr |-> ""]

DefaultVal(e) == [kind |-> "Val", expr |-> e]

\* DefaultValue::is_default
is_default(d) == d.kind # "None"

FnArg(k, pat, ty) == [kind |-> k, pat |-> pat, ty |-> ty]

\* impl Parse for FnArg (syn): `&self`, `&mut self`, `self`, `pat: Type`,
\* or a type alone.  Alternatives are tried on forks of the stream.
ParseFnArg(c, pos) ==
    IF At(c, pos, "punct", "&") /\ At(c, pos + 1, "ident", "self")
       /\ ~At(c, pos + 2, "punct", ":")
    THEN POk(pos + 2, FALSE, FnArg("SelfRef", "self", "&"))
    ELSE IF At(c, pos, "punct", "&") /\ At(c, pos + 1, "ident", "mut")
            /\ At(c, pos + 2, "ident", "self") /\ ~At(c, pos + 3, "punct", ":")
    THEN POk(pos + 3, FALSE, FnArg("SelfRef", "self", "&mut"))
    ELSE IF At(c, pos, "ident", "self") /\ ~At(c, pos + 1, "punct", ":")
    THEN POk(pos + 1, FALSE, FnArg("SelfValue", "self", ""))
    ELSE IF IsIdent(c, pos) /\ At(c, pos + 1, "punct", ":") /\ IsType(c, pos + 2)
    THEN POk(pos + 3, FALSE, FnArg("Captured", c[pos].v, c[pos + 2].v))
    ELSE IF IsType(c, pos)
    THEN POk(pos + 1, FALSE, FnArg("Ignored", "", c[pos].v))
    ELSE PErr(pos, FALSE, "expected argument")

RECURSIVE ParseFnArgs(_, _, _)
RECURSIVE FnArgsAfter(_, _, _)
\* content.parse_terminated(FnArg::parse)
ParseFnArgs(c, pos, acc) ==
    IF pos > Len(c) THEN POk(pos, FALSE, acc)
    ELSE FnArgsAfter(c, acc, ParseFnArg(c, pos))

\* ... after the argument `a`: the end, or a comma and the next argument
FnArgsAfter(c, acc, a) ==
    IF ~a.ok THEN PErr(a.pos, TRUE, a.err)
    ELSE IF a.pos > Len(c) THEN POk(a.pos, FALSE, Append(acc, a.val))
    ELSE IF At(c, a.pos, "punct", ",")
         THEN ParseFnArgs(c, a.pos + 1, Append(acc, a.val))
         ELSE PErr(a.pos, TRUE, "expected ','")

MethodSig(ident, inputs, hasOut, ty) ==
    [ident |-> ident, inputs |-> inputs, output |-> [arrow |-> hasOut, ty |-> ty]]

\* fn parse_method_sig.  Every step moves the cursor of the shared stream;
\* the cursor stays where the failing step found it.
\* Option<Token![const]>, Option<Token![unsafe]>, Option<Token![async]>
SkipWord(toks, pos, w) == IF At(toks, pos, "ident", w) THEN pos + 1 ELSE pos

\* Option<Abi>: `extern` and an optional name
SkipAbi(toks, pos) ==
    IF At(toks, pos, "ident", "extern")
    THEN (IF IsGroup(toks, pos + 1, "lit") THEN pos + 2 ELSE pos + 1)
    ELSE pos

\* the return type and the end of parse_method_sig; p is at the parameter list
SigOutput(toks, p, inputs) ==
    IF ~inputs.ok THEN PErr(p + 1, TRUE, inputs.err)
    ELSE IF At(toks, p + 1, "punct", "->")
         THEN (IF IsType(toks, p + 2)
               THEN POk(p + 3, FALSE,
                        MethodSig(toks[p - 1].v, inputs.val, TRUE, toks[p + 2].v))
               ELSE PErr(p + 2, FALSE, "expected type"))
         ELSE POk(p + 1, FALSE, MethodSig(toks[p - 1].v, inputs.val, FALSE, ""))

\* `fn`, the name and the parameter list; p is past the qualifiers
SigFn(toks, p) ==
    IF ~At(toks, p, "ident", "fn") THEN PErr(p, FALSE, "expected 'fn'")
    ELSE IF ~IsIdent(toks, p + 1) THEN PErr(p + 1, FALSE, "expected identifier")
    ELSE IF ~IsGroup(toks, p + 2, "paren") THEN PErr(p + 2, FALSE, "expected parentheses")
    ELSE SigOutput(toks, p + 2, ParseFnArgs(toks[p + 2].c, 1, <<>>))

parse_method_sig(toks, pos) ==
    SigFn(toks, SkipAbi(toks, SkipWord(toks, SkipWord(toks, SkipWord(toks, pos,
                                "const"), "unsafe"), "async")))

NoSig == MethodSig("", <<>>, FALSE, "")

\* enum MethodType
MethodGet(ident, ty) == [kind |-> "Get", ident |-> ident, ty |-> ty, sig |-> NoSig]

MethodSet(ident, ty) == [kind |-> "Set", ident |-> ident, ty |-> ty, sig |-> NoSig]

MethodFn(sig) == [kind |-> "Fn", ident |-> sig.ident, ty |-> "", sig |-> sig]

RECURSIVE ParseIdents(_, _, _)
\* content.parse_terminated(Ident::parse)
ParseIdents(c, pos, acc) ==
    IF pos > Len(c) THEN POk(pos, FALSE, acc)
    ELSE IF ~IsIdent(c, pos) THEN PErr(pos, TRUE, "expected identifier")
    ELSE IF pos + 1 > Len(c) THEN POk(pos + 1, FALSE, Append(acc, c[pos].v))
    ELSE IF At(c, pos + 1, "punct", ",")
         THEN ParseIdents(c, pos + 2, Append(acc, c[pos].v))
         ELSE PErr(pos + 1, TRUE, "expected ','")

\* The state list of an entry: one identifier, else a bracketed list
BracketedStates(pos, l) ==
    IF l.ok THEN POk(pos + 1, FALSE, l.val) ELSE PErr(pos + 1, TRUE, l.err)

ParseStates(toks, pos) ==
    IF IsIdent(toks, pos) THEN POk(pos + 1, FALSE, <<toks[pos].v>>)
    ELSE IF IsGroup(toks, pos, "bracket")
         THEN BracketedStates(pos, ParseIdents(toks[pos].c, 1, <<>>))
         ELSE PErr(pos, FALSE, "expected square brackets")

\* The fallback clause: Option<Token![default]>, then ParenVal if present
DefaultFrom(pv) ==
    IF pv.ok THEN POk(pv.pos, pv.unexp, DefaultVal(pv.val))
    ELSE POk(pv.pos, pv.unexp, DefaultDefault)

ParseDefault(toks, pos) ==
    IF At(toks, pos, "ident", "default")
    THEN DefaultFrom(ParenVal(toks, pos + 1))
    ELSE POk(pos, FALSE, DefaultNone)

\* The get/set shorthand, read where parse_method_sig left the cursor
ParseShorthand(toks, pos, unexp) ==
    IF ~IsIdent(toks, pos) THEN PErr(pos, unexp, "expected identifier")
    ELSE IF ~IsIdent(toks, pos + 1) THEN PErr(pos + 1, unexp, "expected identifier")
    ELSE IF ~At(toks, pos + 2, "punct", ":") THEN PErr(pos + 2, unexp, "expected ':'")
    ELSE IF ~IsType(toks, pos + 3) THEN PErr(pos + 3, unexp, "expected type")
    ELSE IF toks[pos].v = "get"
         THEN POk(pos + 4, unexp, MethodGet(toks[pos + 1].v, toks[pos + 3].v))
    ELSE IF toks[pos].v = "set"
         THEN POk(pos + 4, unexp, MethodSet(toks[pos + 1].v, toks[pos + 3].v))
    ELSE PErr(pos + 4, unexp, "expected 'get' or 'set'")

Method(states, method_type, default) ==
    [states |-> states, method_type |-> method_type, default |-> default]

\* Ok(Method { states, method_type, default })
MethodOf(states, default, mt) ==
    IF ~mt.ok THEN mt ELSE POk(mt.pos, mt.unexp, Method(states, mt.val, default))

\* `match parse_method_sig(input)`: the signature, else the shorthand
MethodTypeOf(toks, unexp, sig) ==
    IF sig.ok THEN POk(sig.pos, unexp \/ sig.unexp, MethodFn(sig.val))
    ELSE ParseShorthand(toks, sig.pos, unexp \/ sig.unexp)

MethodAfterDefault(toks, states, d) ==
    MethodOf(states, d.val, MethodTypeOf(toks, d.unexp, parse_method_sig(toks, d.pos)))

MethodAfterStates(toks, st) ==
    IF ~st.ok THEN st
    ELSE IF ~At(toks, st.pos, "punct", "=>") THEN PErr(st.pos, FALSE, "expected '=>'")
    ELSE MethodAfterDefault(toks, st.val, ParseDefault(toks, st.pos + 1))

\* impl Parse for Method
MethodParse(toks, pos) == MethodAfterStates(toks, ParseStates(toks, pos))

RECURSIVE ParseMoreMethods(_, _, _, _)
RECURSIVE MoreMethodsAfter(_, _, _, _)
\* the loop of impl Parse for Methods: `, Method` while a comma follows
ParseMoreMethods(c, pos, unexp, acc) ==
    IF At(c, pos, "punct", ",")
    THEN MoreMethodsAfter(c, unexp, acc, MethodParse(c, pos + 1))
    ELSE POk(pos, unexp \/ pos <= Len(c), acc)

MoreMethodsAfter(c, unexp, acc, m) ==
    IF ~m.ok THEN m
    ELSE ParseMoreMethods(c, m.pos, unexp \/ m.unexp, Append(acc, m.val))

\* Ok(Methods { machine_name, methods })
MethodsOf(machine_name, all) ==
    IF ~all.ok THEN PErr(4, TRUE, all.err)
    ELSE POk(4, all.unexp, [machine_name |-> machine_name, methods |-> all.val])

MethodsAfterFirst(toks, first) ==
    IF ~first.ok THEN PErr(4, TRUE, first.err)
    ELSE MethodsOf(toks[1].v,
                   ParseMoreMethods(toks[3].c, first.pos, first.unexp, <<first.val>>))

\* impl Parse for Methods
MethodsParse(toks) ==
    IF ~IsIdent(toks, 1) THEN PErr(1, FALSE, "expected identifier")
    ELSE IF ~At(toks, 2, "punct", ",") THEN PErr(2, FALSE, "expected ','")
    ELSE IF ~IsGroup(toks, 3, "bracket") THEN PErr(3, FALSE, "expected square brackets")
    ELSE MethodsAfterFirst(toks, MethodParse(toks[3].c, 1))

\* the end of syn's parse2: dropped tokens, then unused input, are errors
CheckUnexpected(toks, r) ==
    IF ~r.ok THEN r
    ELSE IF r.unexp \/ r.pos <= Len(toks) THEN PErr(r.pos, r.unexp, "unexpected token")
    ELSE r

\* parse_macro_input!(input as Methods)
parse_macro_input(toks) == CheckUnexpected(toks, MethodsParse(toks))

----------------------------------------------------------------------------
(* Code generation (impl Methods) *)

RECURSIVE StateOccurrences(_)
\* the states of all methods, in order (the keys inserted into `h`)
StateOccurrences(ms) ==
    IF ms = <<>> THEN <<>> ELSE Head(ms).states \o StateOccurrences(Tail(ms))

ImplStates(ms) == { StateOccurrences(ms)[i] : i \in DOMAIN StateOccurrences(ms) }

\* Iterating a HashMap visits its keys in an unspecified order.
Orderings(S) ==
    { o \in [1..Cardinality(S) -> S] : \A i, j \in DOMAIN o : o[i] = o[j] => i = j }

RECURSIVE MethodTypesOf(_, _)
\* h[state]: the method type of every entry listing the state, once per listing
MethodTypesOf(ms, state) ==
    IF ms = <<>> THEN <<>>
    ELSE LET m == Head(ms)
             n == Cardinality({ i \in DOMAIN m.states : m.states[i] = state })
         IN [i \in 1..n |-> m.method_type] \o MethodTypesOf(Tail(ms), state)

Stub(name, recv, ret, field) == [name |-> name, recv |-> recv, ret |-> ret, field |-> field]

RetType(kind, ref, ty) == [kind |-> kind, ref |-> ref, ty |-> ty]

RECURSIVE StubsOf(_)
StubsOf(mts) ==
    IF mts = <<>> THEN <<>>
    ELSE LET mt == Head(mts)
         IN (CASE mt.kind = "Get" ->
                    <<Stub(mt.ident, "&self", RetType("plain", "&", mt.ty), mt.ident)>>
               [] mt.kind = "Set" ->
                    <<Stub(mt.ident \o "_mut", "&mut self",
                           RetType("plain", "&mut", mt.ty), mt.ident)>>
               [] OTHER -> <<>>)
            \o StubsOf(Tail(mts))

\* Methods::generate_state_impl: `impl #state { #(#method_tokens)* }`
generate_state_impl(state, mts) == [state |-> state, stubs |-> StubsOf(mts)]

\* Methods::generate_state_impls, the map being visited in the order `order`
generate_state_impls(ms, order) ==
    [i \in DOMAIN order |-> generate_state_impl(order[i], MethodTypesOf(ms, order[i]))]

WrapperArm(state, call, args, some) ==
    [pat |-> state, call |-> call, args |-> args, some |-> some]

Wrapper(name, inputs, output, arms, fallback) ==
    [name |-> name, inputs |-> inputs, output |-> output, arms |-> arms,
     fallback |-> fallback]

FallbackNone == [kind |-> "None", expr |-> ""]

SelfRef == FnArg("SelfRef", "self", "&")

SelfRefMut == FnArg("SelfRef", "self", "&mut")

\* Methods::generate_getter
generate_getter(method, ident, ty) ==
    Wrapper(ident, <<SelfRef>>, RetType("option", "&", ty),
            [i \in DOMAIN method.states |-> WrapperArm(method.states[i], ident, <<>>, TRUE)],
            FallbackNone)

\* Methods::generate_setter
generate_setter(method, ident, ty) ==
    LET mut_ident == ident \o "_mut"
    IN Wrapper(mut_ident, <<SelfRefMut>>, RetType("option", "&mut", ty),
               [i \in DOMAIN method.states |->
                   WrapperArm(method.states[i], mut_ident, <<>>, TRUE)],
               FallbackNone)

RECURSIVE CapturedPats_all(_)
\* the patterns of all inputs, the receiver not filtered out
CapturedPats_all(inputs) ==
    IF inputs = <<>> THEN <<>>
    ELSE <<Head(inputs).pat>> \o CapturedPats_all(Tail(inputs))

RECURSIVE CapturedPats(_)
\* the patterns of the FnArg::Captured inputs, in order
CapturedPats(inputs) ==
    IF inputs = <<>> THEN <<>>
    ELSE (IF Head(inputs).kind = "Captured" THEN <<Head(inputs).pat>> ELSE <<>>)
         \o CapturedPats(Tail(inputs))

\* Methods::generate_fn
generate_fn(method, signature) ==
    LET args == CapturedPats(signature.inputs)
        variants == [i \in DOMAIN method.states |->
                        WrapperArm(method.states[i], signature.ident, args,
                                   ~is_default(method.default))]
        output == IF ~signature.output.arrow THEN RetType("none", "", "")
                  ELSE IF is_default(method.default)
                       THEN RetType("plain", "", signature.output.ty)
                       ELSE RetType("option", "", signature.output.ty)
        fallback == CASE method.default.kind = "None" -> FallbackNone
                      [] method.default.kind = "Default" -> [kind |-> "Default", expr |-> ""]
                      [] OTHER -> [kind |-> "Expr", expr |-> method.default.expr]
    IN Wrapper(signature.ident, signature.inputs, output, variants, fallback)

\* Methods::generate_impl: `impl #machine_name { #(#wrapper_methods)* }`
generate_impl(ms) ==
    [i \in DOMAIN ms |->
        CASE ms[i].method_type.kind = "Get" ->
                generate_getter(ms[i], ms[i].method_type.ident, ms[i].method_type.ty)
          [] ms[i].method_type.kind = "Set" ->
                generate_setter(ms[i], ms[i].method_type.ident, ms[i].method_type.ty)
          [] OTHER -> generate_fn(ms[i], ms[i].method_type.sig)]

\* Methods::generate: the state impls, then the impl of the machine
methods_generate(m, order) ==
    [machine_name |-> m.machine_name,
     impls |-> generate_state_impls(m.methods, order),
     wrappers |-> generate_impl(m.methods)]

----------------------------------------------------------------------------
(* The generated code at run time *)

RV(ty, v) == [ty |-> ty, v |-> v]

U8(n) == RV("u8", n)

Bool(b) == RV("bool", IF b THEN 1 ELSE 0)

Unit == RV("()", 0)

Some(x) == [opt |-> "Some", val |-> x]

None == [opt |-> "None", val |-> RV("-", 0)]

Bare(x) == [opt |-> "-", val |-> x]

\* Methods the author of the states writes: can_pass as documented, `log`,
\* a method without a return type, and `add` and `pick`, methods with
\* arguments.
UserFnType(name) ==
    CASE name = "can_pass" -> "bool"
      [] name \in {"add", "pick"} -> "u8"
      [] OTHER -> "()"

\* the types of their parameters after the receiver
UserFnParams(name) ==
    CASE name = "add" -> <<"u8">>
      [] name = "pick" -> <<"u8", "u8">>
      [] OTHER -> <<>>

UserFns == {"can_pass", "log", "add", "pick"}

\* The fields of the state structs: Green { count: u8 }
HasField(state, field, ty) == state = "Green" /\ field = "count" /\ ty = "u8"

\* v.#ident(...) on the payload of the active state, with the values argv
CallState(self, name, argv) ==
    CASE name \in {"count", "count_mut"} -> U8(self.count)
      [] name = "can_pass" -> Bool(self.variant = "Green")
      [] name = "add" -> U8(U8Add(self.count, argv[1]))
      [] name = "pick" -> U8(U8Add(U8Add(argv[1], argv[1]), argv[2]))
      [] OTHER -> Unit

\* std::default::Default::default() / the literal, at the declared type
DefaultOf(ty) ==
    CASE ty = "u8" -> U8(0)
      [] ty = "bool" -> Bool(FALSE)
      [] OTHER -> Unit

LiteralOf(expr) ==
    CASE expr = "0" -> U8(0)
      [] expr = "1" -> U8(1)
      [] expr = "true" -> Bool(TRUE)
      [] OTHER -> Bool(FALSE)

ArmsFor(w, self) == { i \in DOMAIN w.arms : w.arms[i].pat = self.variant }

\* The parameters of a wrapper after the receiver, and the position of one
Params(w) == Tail(w.inputs)

ParamPos(w, pat) == CHOOSE p \in DOMAIN Params(w) : Params(w)[p].pat = pat

\* The values the arm `a` passes on, the wrapper being called with `vals`
ArgValues(w, a, vals) == [k \in DOMAIN a.args |-> vals[ParamPos(w, a.args[k])]]

\* `match self { #(#variants)* _ => ... }` of a wrapper called with `vals`
CallWrapper(w, self, vals) ==
    IF ArmsFor(w, self) # {}
    THEN LET i == CHOOSE k \in ArmsFor(w, self) : \A j \in ArmsFor(w, self) : k <= j
             r == CallState(self, w.arms[i].call, ArgValues(w, w.arms[i], vals))
         IN IF w.arms[i].some THEN Some(r) ELSE Bare(r)
    ELSE CASE w.fallback.kind = "None" -> None
           [] w.fallback.kind = "Default" ->
                Bare(DefaultOf(IF w.output.kind = "none" THEN "()" ELSE w.output.ty))
           [] OTHER -> Bare(LiteralOf(w.fallback.expr))

\* What the compiler requires of the generated code together with the
\* impls of the author: the states are variants, the called methods exist,
\* no name is defined twice, arms and fallback have the declared type.
StubsOn(c, state) ==
    UNION { { c.impls[i].stubs[k] : k \in DOMAIN c.impls[i].stubs } :
            i \in { j \in DOMAIN c.impls : c.impls[j].state = state } }

ArmTypeOk(c, w, a) ==
    /\ a.pat \in States
    /\ \/ /\ a.call \in UserFns
          /\ w.inputs # <<>> /\ Head(w.inputs) = SelfRef
          /\ \A p \in DOMAIN Params(w) : Params(w)[p].kind = "Captured"
          /\ Len(a.args) = Len(UserFnParams(a.call))
          /\ \A k \in DOMAIN a.args :
                \E p \in DOMAIN Params(w) :
                    /\ Params(w)[p].pat = a.args[k]
                    /\ Params(w)[p].ty = UserFnParams(a.call)[k]
          /\ IF a.some THEN w.output.kind = "option" /\ w.output.ty = UserFnType(a.call)
             ELSE \/ w.output.kind = "plain" /\ w.output.ty = UserFnType(a.call)
                  \/ w.output.kind = "none" /\ UserFnType(a.call) = "()"
       \/ /\ \E s \in StubsOn(c, a.pat) : s.name = a.call /\ s.ret.ref = w.output.ref
          /\ a.some /\ w.output.kind = "option"

FallbackTypeOk(w) ==
    CASE w.fallback.kind = "None" -> w.output.kind = "option"
      [] w.fallback.kind = "Default" -> w.output.ref = ""
      [] OTHER -> /\ w.output.kind = "plain"
                  /\ w.output.ty = LiteralOf(w.fallback.expr).ty
                  /\ w.fallback.expr \in {"0", "1", "true", "false"}

Compiles(c) ==
    /\ \A i \in DOMAIN c.impls :
          /\ c.impls[i].state \in States
          /\ \A k \in DOMAIN c.impls[i].stubs :
                /\ HasField(c.impls[i].state, c.impls[i].stubs[k].field,
                            c.impls[i].stubs[k].ret.ty)
                /\ \A l \in DOMAIN c.impls[i].stubs :
                      c.impls[i].stubs[k].name = c.impls[i].stubs[l].name => k = l
    /\ \A i, j \in DOMAIN c.wrappers : c.wrappers[i].name = c.wrappers[j].name => i = j
    /\ \A i \in DOMAIN c.wrappers :
          /\ \A k \in DOMAIN c.wrappers[i].arms :
                ArmTypeOk(c, c.wrappers[i], c.wrappers[i].arms[k])
          /\ FallbackTypeOk(c.wrappers[i])

----------------------------------------------------------------------------
(* methods! invocations *)

StateListChoices ==
    { <<Id("Green")>>,
      <<Id("Orange")>>,
      <<Bracket(<<Id("Green")>>)>>,
      <<Bracket(<<Id("Orange"), Pn(","), Id("Red")>>)>>,
      <<Bracket(<<Id("Green"), Pn(","), Id("Orange"), Pn(","), Id("Red")>>)>>,
      <<Bracket(<<>>)>>,
      <<Bracket(<<Id("Green"), Pn(","), Id("Green")>>)>>,
      <<Id("Green"), Pn(","), Id("Orange"), Pn(","), Id("Red")>> }

FallbackChoices ==
    { <<>>,
      <<Id("default")>>,
      <<Id("default"), Paren(<<Lit("0")>>)>>,
      <<Id("default"), Paren(<<Id("false")>>)>>,
      <<Id("default"), Paren(<<>>)>>,
      <<Id("default"), Paren(<<Pn(",")>>)>>,
      <<Id("default"), Paren(<<Lit("0"), Lit("1")>>)>>,
      <<Paren(<<Lit("0")>>)>> }

GetCount == <<Id("get"), Id("count"), Pn(":"), Id("u8")>>

SetCount == <<Id("set"), Id("count"), Pn(":"), Id("u8")>>

FnCanPass == <<Id("fn"), Id("can_pass"), Paren(<<Pn("&"), Id("self")>>), Pn("->"), Id("bool")>>

FnLog == <<Id("fn"), Id("log"), Paren(<<Pn("&"), Id("self")>>)>>

FnAdd ==
    <<Id("fn"), Id("add"),
      Paren(<<Pn("&"), Id("self"), Pn(","), Id("n"), Pn(":"), Id("u8")>>),
      Pn("->"), Id("u8")>>

FnPick ==
    <<Id("fn"), Id("pick"),
      Paren(<<Pn("&"), Id("self"), Pn(","), Id("a"), Pn(":"), Id("u8"),
              Pn(","), Id("b"), Pn(":"), Id("u8")>>),
      Pn("->"), Id("u8")>>

BodyChoices ==
    { GetCount, SetCount, FnCanPass, FnLog, FnAdd, FnPick,
      <<Id("unsafe")>> \o GetCount,
      <<Id("fn"), Id("get")>> \o SetCount,
      <<Id("foo"), Id("count"), Pn(":"), Id("u8")>> }

Entries ==
    { s \o <<Pn("=>")>> \o f \o b :
        s \in StateListChoices, f \in FallbackChoices, b \in BodyChoices }

Invocation(content) == <<Id(MachineName), Pn(","), Bracket(content)>>

\* The methods! block of the crate documentation
DocMethods ==
    <<Id("Green"), Pn("=>")>> \o GetCount \o <<Pn(",")>>
    \o <<Id("Green"), Pn("=>")>> \o SetCount \o <<Pn(",")>>
    \o <<Id("Green"), Pn(","), Id("Orange"), Pn(","), Id("Red"), Pn("=>")>> \o FnCanPass

\* ... and with the state list of can_pass in brackets
DocMethodsBracketed ==
    <<Id("Green"), Pn("=>")>> \o GetCount \o <<Pn(",")>>
    \o <<Id("Green"), Pn("=>")>> \o SetCount \o <<Pn(",")>>
    \o <<Bracket(<<Id("Green"), Pn(","), Id("Orange"), Pn(","), Id("Red")>>), Pn("=>")>>
    \o FnCanPass

Invocations ==
    { Invocation(e) : e \in Entries } \cup
    { Invocation(DocMethods), Invocation(DocMethodsBracketed) }

NoOut == [method |-> "-", from |-> NoValue, args |-> <<>>, res |-> None]

MInit ==
    /\ minput \in Invocations
    /\ mpc = "source"
    /\ ast = <<>>
    /\ code = <<>>
    /\ out = NoOut
    /\ rs = <<>>
    /\ t \in AllValues
    /\ block = <<>>
    /\ tpc = "source"
    /\ stream = <<>>
    /\ dot = <<>>
    /\ last = NoLast
    /\ trace = <<>>
    /\ XIdle

\* The methods! macro: parse; on an error return it as a compile error, else
\* generate, write target/<name>.rs (File::create truncates) and return.
\* methods! creating (and so truncating) the file before looking at the parse
MethodsExpand_create_first(r) ==
    /\ ast' = r
    /\ IF ~r.ok
       THEN /\ mpc' = "failed"
            /\ rs' = <<>>
            /\ UNCHANGED code
       ELSE /\ mpc' = "generated"
            /\ \E order \in Orderings(ImplStates(r.val.methods)) :
                  /\ code' = methods_generate(r.val, order)
                  /\ rs' = <<methods_generate(r.val, order)>>

MethodsExpand(r) ==
    /\ ast' = r
    /\ IF ~r.ok
       THEN /\ mpc' = "failed"
            /\ UNCHANGED <<code, rs>>
       ELSE /\ mpc' = "generated"
            /\ \E order \in Orderings(ImplStates(r.val.methods)) :
                  /\ code' = methods_generate(r.val, order)
                  /\ rs' = <<methods_generate(r.val, order)>>

methods ==
    /\ mpc = "source"
    /\ MethodsExpand(parse_macro_input(minput))
    /\ UNCHANGED <<minput, out, t>>
    /\ UNCHANGED avars
    /\ UNCHANGED xvars

\* t.<wrapper>(vals) on the machine value
Call(i) ==
    /\ mpc = "generated"
    /\ Compiles(code)
    /\ i \in DOMAIN code.wrappers
    /\ \E vals \in [DOMAIN Params(code.wrappers[i]) -> 0..MaxCount] :
          out' = [method |-> code.wrappers[i].name, from |-> t, args |-> vals,
                  res |-> CallWrapper(code.wrappers[i], t, vals)]
    /\ UNCHANGED <<minput, mpc, ast, code, rs, t>>
    /\ UNCHANGED avars
    /\ UNCHANGED xvars

\* if let Some(c) = t.count_mut() { *c = n }
Store(i, n) ==
    /\ mpc = "generated"
    /\ Compiles(code)
    /\ i \in DOMAIN code.wrappers
    /\ code.wrappers[i].output.ref = "&mut"
    /\ LET r == CallWrapper(code.wrappers[i], t, <<>>)
       IN /\ out' = [method |-> code.wrappers[i].name, from |-> t, args |-> <<>>,
                     res |-> r]
          /\ t' = IF r.opt = "Some" THEN Value(t.variant, n) ELSE t
    /\ UNCHANGED <<minput, mpc, ast, code, rs>>
    /\ UNCHANGED avars
    /\ UNCHANGED xvars

MaxEntries == 3

MNext ==
    \/ methods
    \/ \E i \in 1..MaxEntries : Call(i)
    \/ \E i \in 1..MaxEntries, n \in 0..MaxCount : Store(i, n)

MethodsSpec == MInit /\ [][MNext]_vars

----------------------------------------------------------------------------
(* The three macros of one build (Part C) *)

Brace(c) == [k |-> "brace", v |-> "", c |-> c]

\* machine!(enum Traffic { Green { count: u8 }, Orange, Red })
TrafficMachine ==
    <<Id("enum"), Id(MachineName),
      Brace(<<Id("Green"), Brace(<<Id("count"), Pn(":"), Id("u8")>>), Pn(","),
              Id("Orange"), Pn(","), Id("Red")>>)>>

\* ... and without the `enum` keyword
MalformedMachine ==
    <<Id(MachineName),
      Brace(<<Id("Green"), Brace(<<Id("count"), Pn(":"), Id("u8")>>), Pn(","),
              Id("Orange"), Pn(","), Id("Red")>>)>>

\* impl Parse for Machine: `enum`, the name, the braced states
MachineParse(toks) ==
    /\ At(toks, 1, "ident", "enum")
    /\ IsIdent(toks, 2)
    /\ IsGroup(toks, 3, "brace")
    /\ Len(toks) = 3

\* The documented code of the Traffic machine: the enum with Error first,
\* the structs of the states, the constructors
TrafficCode ==
    [enum |-> <<"Error", "Green", "Orange", "Red">>,
     structs |-> [s \in States |-> IF s = "Green" THEN <<"count">> ELSE <<>>],
     constructors |-> <<"green", "orange", "red", "error">>]

\* The machine! macro: parse; on an error return it as a compile error, else
\* generate, create target/machine/<name>, write machine.rs there (opened
\* with truncate) and return the code.
machine ==
    /\ mach.pc = "source"
    /\ mach.input # <<>>
    /\ IF MachineParse(mach.input)
       THEN mach' = [mach EXCEPT !.pc = "generated", !.file = <<TrafficCode>>,
                                 !.ret = TrafficCode]
       ELSE mach' = [mach EXCEPT !.pc = "failed"]
    /\ UNCHANGED <<t, rs, art>>
    /\ UNCHANGED avars
    /\ UNCHANGED mvars

BuildBlocks == {AdvanceEdges, TrafficEdges, MalformedEdges}

BuildInvocations ==
    { Invocation(DocMethods), Invocation(DocMethodsBracketed),
      Invocation(<<Id("Green"), Pn("=>")>> \o GetCount),
      Invocation(<<Id("Green"), Pn("=>"), Id("default")>> \o FnCanPass),
      Invocation(<<Id("Green"), Pn("=>"), Id("foo"), Id("count"), Pn(":"), Id("u8")>>) }

BuildInit ==
    /\ block \in BuildBlocks
    /\ tpc = "source"
    /\ stream = <<>>
    /\ dot = <<>>
    /\ t = green(0)
    /\ last = NoLast
    /\ trace = <<>>
    /\ rs = <<>>
    /\ minput \in BuildInvocations
    /\ mpc = "source"
    /\ ast = <<>>
    /\ code = <<>>
    /\ out = NoOut
    /\ mach \in { [NoMachine EXCEPT !.input = i] : i \in {TrafficMachine, MalformedMachine} }
    /\ art = NoArt

\* The build expands the macro invocations in whatever order it schedules them.
BuildNext ==
    \/ machine
    \/ transitions
    \/ methods

BuildSpec == BuildInit /\ [][BuildNext]_vars

----------------------------------------------------------------------------
(* The file paths of the artifacts (Part D) *)

\* Machine names are identifiers, written as sequences of characters
Letters == {"T", "t", "L"}

\* char::to_lowercase
LowerChar(ch) ==
    CASE ch = "T" -> "t"
      [] ch = "L" -> "l"
      [] OTHER -> ch

\* name.to_string().to_lowercase()
to_lowercase(name) == [i \in DOMAIN name |-> LowerChar(name[i])]

\* OUTPUT_DIR
OUTPUT_DIR == <<"target", "/", "machine">>

\* machine!: format!("{}/{}", OUTPUT_DIR, ..) and format!("{}/machine.rs", output_dir)
MachineFileName(name) ==
    OUTPUT_DIR \o <<"/">> \o to_lowercase(name) \o <<"/", "machine", ".rs">>

\* transitions! and methods!: format!("target/{}.rs", ..)
RsFileName(name) == <<"target", "/">> \o to_lowercase(name) \o <<".rs">>

\* transitions!: format!("target/{}.dot", ..)
DotFileName(name) == <<"target", "/">> \o to_lowercase(name) \o <<".dot">>

\* The paths an invocation of a macro for the machine `name` writes
WrittenPaths(macro, name) ==
    CASE macro = "machine" -> {MachineFileName(name)}
      [] macro = "transitions" -> {RsFileName(name), DotFileName(name)}
      [] OTHER -> {RsFileName(name)}

Macros == {"machine", "transitions", "methods"}

Names == SeqsUpTo(Letters, MaxName) \ { <<>> }

PathInit ==
    /\ art \in { [inv |-> <<[macro |-> m1, name |-> n1], [macro |-> m2, name |-> n2]>>,
                  paths |-> <<{}, {}>>] :
                    m1 \in Macros, m2 \in Macros, n1 \in Names, n2 \in Names }
    /\ mach = NoMachine
    /\ block = <<>>
    /\ tpc = "source"
    /\ stream = <<>>
    /\ dot = <<>>
    /\ t = green(0)
    /\ last = NoLast
    /\ trace = <<>>
    /\ rs = <<>>
    /\ MIdle

\* The k-th invocation is expanded and writes its files
expand(k) ==
    /\ k \in DOMAIN art.inv
    /\ art.paths[k] = {}
    /\ art' = [art EXCEPT !.paths[k] = WrittenPaths(art.inv[k].macro, art.inv[k].name)]
    /\ UNCHANGED <<t, rs, mach>>
    /\ UNCHANGED avars
    /\ UNCHANGED mvars

PathNext == \E k \in 1..2 : expand(k)

PathSpec == PathInit /\ [][PathNext]_vars

----------------------------------------------------------------------------
(* Properties of the generated wrappers and of the methods parser (Part B) *)

Called == out.method # "-"

\* The states listed by the i-th entry
Sigma(i) == { ast.val.methods[i].states[k] : k \in DOMAIN ast.val.methods[i].states }

\* The result of the same-named method on the payload of the value the
\* wrapper was called on: the field for a shorthand, the call for a signature
StateResult(i) ==
    IF ast.val.methods[i].method_type.kind = "Fn"
    THEN CallState(out.from, ast.val.methods[i].method_type.ident, out.args)
    ELSE U8(out.from.count)

ArmsOf(i, s) ==
    { k \in DOMAIN code.wrappers[i].arms : code.wrappers[i].arms[k].pat = s }

\* The wrapper that was called belongs to the i-th entry, whose fallback is k
CalledEntry(i, k) ==
    /\ code.wrappers[i].name = out.method
    /\ ast.val.methods[i].default.kind = k

\* C8: the wrapper of an entry with no fallback clause and state set Sigma
\* returns Some(v), v being the result of the same-named method on the payload
\* (for a getter the field), when the active variant is in Sigma, and None for
\* every other variant, Error included; it has exactly one arm per listed state.
C8_NoFallbackSomeOrNone ==
    Called =>
        \A i \in DOMAIN code.wrappers :
            CalledEntry(i, "None") =>
                /\ \A s \in Sigma(i) : Cardinality(ArmsOf(i, s)) = 1
                /\ out.from.variant \in Sigma(i) => out.res = Some(StateResult(i))
                /\ out.from.variant \notin Sigma(i) => out.res = None

\* C9: the wrapper of an entry declared with default(expr), whatever its
\* method kind, returns the value of expr when the active variant is not in
\* the entry's state set, and the state method's result, not wrapped in
\* Some, when it is.
C9_FallbackExprReturned ==
    Called =>
        \A i \in DOMAIN code.wrappers :
            CalledEntry(i, "Val") =>
                /\ out.from.variant \notin Sigma(i)
                      => out.res = Bare(LiteralOf(ast.val.methods[i].default.expr))
                /\ out.from.variant \in Sigma(i) => out.res = Bare(StateResult(i))

\* The grammar of the fallback clause, read off the tokens of one entry:
\* `a` is the position of `=>`.
Arrows(c) == { p \in DOMAIN c : At(c, p, "punct", "=>") }

ArrowAt(c) == CHOOSE p \in Arrows(c) : TRUE

\* a parenthesized expression: a group holding one expression and no more
IsParenExpr(c, p) ==
    IsGroup(c, p, "paren") /\ Len(c[p].c) = 1 /\ ParseExpr(c[p].c, 1).ok

ClauseLen(c, a) ==
    IF ~At(c, a + 1, "ident", "default") THEN 0
    ELSE IF IsParenExpr(c, a + 2) THEN 2 ELSE 1

ClauseDefault(c, a) ==
    IF ~At(c, a + 1, "ident", "default") THEN DefaultNone
    ELSE IF IsParenExpr(c, a + 2) THEN DefaultVal(c[a + 2].c[1].v) ELSE DefaultDefault

\* the entry without its fallback clause
WithoutClause(c, a) == SubSeq(c, 1, a) \o SubSeq(c, a + ClauseLen(c, a) + 1, Len(c))

\* r is the parse of an entry, r0 the parse of the entry without its clause
SameEntryWithDefault(r, r0, d) ==
    /\ r.ok = r0.ok
    /\ r.ok => /\ r.val.methods[1].states = r0.val.methods[1].states
               /\ r.val.methods[1].method_type = r0.val.methods[1].method_type
               /\ r.val.methods[1].default = d

\* C10: the parser maps `default(expr)` to Val(expr), `default` not followed
\* by a parenthesized expression to Default, no `default` to None, and in all
\* three cases parses the tokens after the clause as the signature or the
\* shorthand, none of them consumed by the clause: the entry parses as the
\* entry without its clause does, but for the fallback.
C10_FallbackClauseParsed ==
    (mpc # "source" /\ Cardinality(Arrows(minput[3].c)) = 1) =>
        SameEntryWithDefault(
            ast,
            parse_macro_input(Invocation(WithoutClause(minput[3].c, ArrowAt(minput[3].c)))),
            ClauseDefault(minput[3].c, ArrowAt(minput[3].c)))

\* The accessor a shorthand entry asks for on a state
AccessorOf(mt) ==
    IF mt.kind = "Get"
    THEN Stub(mt.ident, "&self", RetType("plain", "&", mt.ty), mt.ident)
    ELSE Stub(mt.ident \o "_mut", "&mut self", RetType("plain", "&mut", mt.ty), mt.ident)

\* The entries that list the state s
Listing(s) == { j \in DOMAIN ast.val.methods : s \in Sigma(j) }

\* The methods generated on the state of the k-th impl block that are `stub`
StubsLike(k, stub) ==
    { n \in DOMAIN code.impls[k].stubs : code.impls[k].stubs[n] = stub }

\* C11: for every state S and every entry that lists S, a getter entry
\* produces on S exactly one accessor `field` returning &field, a setter entry
\* exactly one accessor `field_mut` returning &mut field, and a
\* required-function entry no method on S at all.
C11_OneAccessorPerEntry ==
    mpc = "generated" =>
        \A j \in DOMAIN ast.val.methods : \A s \in Sigma(j) :
            \E k \in DOMAIN code.impls :
                /\ code.impls[k].state = s
                /\ Len(code.impls[k].stubs)
                      = Cardinality({ e \in Listing(s) :
                                        ast.val.methods[e].method_type.kind # "Fn" })
                /\ ast.val.methods[j].method_type.kind # "Fn" =>
                      Cardinality(StubsLike(k, AccessorOf(ast.val.methods[j].method_type)))
                        = Cardinality({ e \in Listing(s) :
                                          ast.val.methods[e].method_type
                                            = ast.val.methods[j].method_type })

RECURSIVE DeclaredParams(_)
\* The names of the parameters of a signature that are not the receiver
DeclaredParams(inputs) ==
    IF inputs = <<>> THEN <<>>
    ELSE (IF Head(inputs).kind \in {"SelfRef", "SelfValue"} THEN <<>>
          ELSE <<Head(inputs).pat>>)
         \o DeclaredParams(Tail(inputs))

\* C12: the wrapper of a required-function entry has the parameter list of
\* the declared signature, and every arm calls the state's method with the
\* declared non-receiver parameters, each once, in declaration order, never
\* with the receiver: called with some values, it gives the state's method
\* those values in that order.
C12_ParamsForwarded ==
    mpc = "generated" =>
        \A j \in DOMAIN ast.val.methods :
            ast.val.methods[j].method_type.kind = "Fn" =>
                /\ code.wrappers[j].inputs = ast.val.methods[j].method_type.sig.inputs
                /\ \A k \in DOMAIN code.wrappers[j].arms :
                      /\ code.wrappers[j].arms[k].call = ast.val.methods[j].method_type.ident
                      /\ code.wrappers[j].arms[k].args
                            = DeclaredParams(ast.val.methods[j].method_type.sig.inputs)
                /\ (Called /\ code.wrappers[j].name = out.method
                      /\ out.from.variant \in Sigma(j))
                     => out.res.val = CallState(out.from,
                                                ast.val.methods[j].method_type.ident,
                                                out.args)

C12_Witness ==
    /\ Called
    /\ out.method = "pick"
    /\ code.wrappers[1].arms[1].args = <<"a", "b">>
    /\ out.from.variant = "Green"
    /\ out.args = <<1, 0>>
    /\ out.res = Some(U8(2))

\* The entry of the claim: `Green, Orange, Red => fn can_pass(&self) -> bool`
UnbracketedCanPass ==
    <<Id("Green"), Pn(","), Id("Orange"), Pn(","), Id("Red"), Pn("=>")>> \o FnCanPass

\* the states the arms of the i-th wrapper match, in order
ArmStates(i) == [k \in DOMAIN code.wrappers[i].arms |-> code.wrappers[i].arms[k].pat]

\* C13: an entry whose state list is an unbracketed comma-separated list, as
\* `Green, Orange, Red => fn can_pass(&self) -> bool` (alone, or last in the
\* documented block), is accepted and yields one entry covering Green, Orange
\* and Red, its wrapper having one arm per listed state.
C13_UnbracketedListAccepted ==
    (mpc # "source"
        /\ minput \in {Invocation(UnbracketedCanPass), Invocation(DocMethods)})
    => /\ ast.ok
       /\ ast.val.methods[Len(ast.val.methods)].states = <<"Green", "Orange", "Red">>
       /\ ArmStates(Len(ast.val.methods)) = <<"Green", "Orange", "Red">>

\* C14: every entry of an AST returned by a successful parse has a non-empty
\* state list; no accepted input, a bracketed list `[]` included, gives an
\* entry covering no state.
C14_StatesNonEmpty ==
    (mpc # "source" /\ ast.ok) =>
        \A j \in DOMAIN ast.val.methods : ast.val.methods[j].states # <<>>

\* C15: when a transitions block and a methods block of the same machine
\* name are both processed, in either order, target/<name>.rs is written in
\* append mode: it then holds the text of the first invocation followed by
\* that of the second, nothing an earlier invocation wrote being erased.
C15_SharedFileAppended ==
    (tpc = "compiled" /\ mpc = "generated")
        => (rs = <<stream, code>> \/ rs = <<code, stream>>)

\* The files of the build are as they were
FilesKept == rs' = rs /\ dot' = dot /\ mach'.file = mach.file

\* C17: in every invocation of machine!, transitions! or methods! the parse
\* completes successfully before anything is generated or written: code is
\* returned only for an input that parsed, and an invocation whose parse
\* fails creates, truncates and writes no file and returns no generated code.
C17_FailedParseWritesNothing ==
    [][/\ (mpc = "source" /\ mpc' = "failed") => (FilesKept /\ ~ast'.ok /\ code' = <<>>)
       /\ (mpc = "source" /\ mpc' = "generated") => ast'.ok
       /\ (tpc = "source" /\ tpc' = "failed") => (FilesKept /\ stream' = <<>>)
       /\ (tpc = "source" /\ tpc' = "compiled") => TransitionsParse(block)
       /\ (mach.pc = "source" /\ mach'.pc = "failed") => (FilesKept /\ mach'.ret = <<>>)
       /\ (mach.pc = "source" /\ mach'.pc = "generated") => MachineParse(mach.input)
      ]_vars

\* methods! failed to parse after transitions! had written both files
C17_Witness ==
    /\ mpc = "failed"
    /\ code = <<>>
    /\ tpc = "compiled"
    /\ rs = <<stream>>
    /\ dot = TrafficDot
    /\ mach.pc = "failed"
    /\ mach.file = <<>>

\* Two edges of the block have the same (state, message) pair
DuplicateEdge(es) ==
    \E i, j \in DOMAIN es :
        i # j /\ es[i].start = es[j].start /\ es[i].message = es[j].message

\* C18: a transitions block declaring two edges with the same (state,
\* message) pair is rejected at generation time: no dispatch code and no graph
\* artifact is produced for it.
C18_DuplicateEdgeRejected ==
    DuplicateEdge(block)
        => (tpc # "compiled" /\ stream = <<>> /\ rs = <<>> /\ dot = <<>>)

\* C16: two macro invocations whose machine names are different identifiers
\* write disjoint sets of file paths, so neither can alter an artifact of the
\* other.
C16_DistinctNamesDisjointPaths ==
    (art.inv # <<>> /\ art.inv[1].name # art.inv[2].name)
        => art.paths[1] \cap art.paths[2] = {}

\* The body of the one entry of the invocation: the tokens after `=>` and
\* the fallback clause of the grammar
EntryBody(c) == SubSeq(c, ArrowAt(c) + ClauseLen(c, ArrowAt(c)) + 1, Len(c))

\* the parse r used up the n tokens it was given
Whole(r, n) == r.ok /\ r.pos = n + 1 /\ ~r.unexp

\* the body is, as a whole, a signature or a get/set shorthand
ValidBody(b) ==
    \/ Whole(parse_method_sig(b, 1), Len(b))
    \/ Whole(ParseShorthand(b, 1, FALSE), Len(b))

\* the invocation has one entry, whose state list is followed by `=>`
OneEntry(c) ==
    /\ Cardinality(Arrows(c)) = 1
    /\ ParseStates(c, 1).ok
    /\ ParseStates(c, 1).pos = ArrowAt(c)

\* C19: the alternatives of an entry body are tried without shared lookahead:
\* a failed signature attempt has consumed no token and the shorthand is
\* parsed from where the attempt started, so an entry is accepted only if its
\* body as a whole is a signature or as a whole is a shorthand.
C19_BodyIsOneAlternative ==
    (mpc # "source" /\ OneEntry(minput[3].c) /\ ast.ok)
        => ValidBody(EntryBody(minput[3].c))

\* C20: every entry whose body is neither a signature nor a get/set shorthand
\* makes the parse fail with "expected 'get' or 'set'": none is accepted, none
\* fails with another message.
C20_InvalidBodyMessage ==
    (mpc # "source" /\ OneEntry(minput[3].c) /\ ~ValidBody(EntryBody(minput[3].c)))
        => (~ast.ok /\ ast.err = "expected 'get' or 'set'")

----------------------------------------------------------------------------
(* The return type of a required-function wrapper *)

\* The return type a signature declares: `-> ty`, and () without an arrow
SigReturnType(sig) == IF sig.output.arrow THEN sig.output.ty ELSE "()"

\* The return type a wrapper declares: no `-> ...` is the return type ()
DeclaredReturn(w) ==
    IF w.output.kind = "none" THEN RetType("plain", "", "()") ELSE w.output

\* C21: for every required-function entry, with no fallback clause the
\* wrapper declares Option<R> for the signature's return type R and its arms
\* return Some(result) and None; with a fallback clause it declares R and its
\* arms return the bare result and the fallback value.  This holds for every
\* signature, including one without a return type (R = ()).
C21_ReturnTypeAgrees ==
    mpc = "generated" =>
        \A j \in DOMAIN ast.val.methods :
            ast.val.methods[j].method_type.kind = "Fn" =>
                IF is_default(ast.val.methods[j].default)
                THEN /\ DeclaredReturn(code.wrappers[j])
                           = RetType("plain", "",
                                 SigReturnType(ast.val.methods[j].method_type.sig))
                     /\ \A k \in DOMAIN code.wrappers[j].arms :
                           ~code.wrappers[j].arms[k].some
                     /\ code.wrappers[j].fallback.kind # "None"
                ELSE /\ DeclaredReturn(code.wrappers[j])
                           = RetType("option", "",
                                 SigReturnType(ast.val.methods[j].method_type.sig))
                     /\ \A k \in DOMAIN code.wrappers[j].arms :
                           code.wrappers[j].arms[k].some
                     /\ code.wrappers[j].fallback.kind = "None"

----------------------------------------------------------------------------
(* The same methods! invocation expanded by a second compilation *)

\* #[proc_macro] methods, run again on the tokens of a block it has
\* generated code for: the block is parsed, the file created anew
rebuild ==
    /\ mpc = "generated"
    /\ MethodsExpand(parse_macro_input(minput))
    /\ UNCHANGED <<minput, out, t>>
    /\ UNCHANGED avars
    /\ UNCHANGED xvars

RebuildNext == methods \/ rebuild

RebuildSpec == MInit /\ [][RebuildNext]_vars

\* C22: two runs of Methods::generate on the same parsed methods block give
\* the same output: the same impl blocks in the same order, the same stubs
\* in each block, the same wrappers.
C22_GenerateDeterministic ==
    [][(mpc = "generated" /\ mpc' = "generated" /\ ast' = ast) => code' = code]_vars

----------------------------------------------------------------------------
(* Runs of a machine whose edges are all single-target *)

\* The longest recorded run, in messages
MaxRun == 3

SingleTarget(es) == \A i \in DOMAIN es : Len(es[i].end) = 1

RunBlocks == { es \in Blocks : SingleTarget(es) }

\* The first record of a run: the value the machine starts with
Started(v) == [msg |-> [name |-> "-", count |-> 0], to |-> v]

RunInit ==
    /\ block \in RunBlocks
    /\ tpc = "source"
    /\ stream = <<>>
    /\ dot = <<>>
    /\ t \in AllValues \ {error}
    /\ last = NoLast
    /\ trace = <<Started(t)>>
    /\ rs = <<>>
    /\ MIdle
    /\ XIdle

\* The arm i of on_<m> run with the state function returning r
Stepped(m, i, r) ==
    /\ t' = RunArm(stream[m][i], r)
    /\ last' = [from |-> t, msg |-> m, called |-> stream[m][i].kind # "error",
                ret |-> r, arm |-> i]
    /\ trace' = Append(trace, [msg |-> [name |-> m, count |-> 0],
                               to |-> RunArm(stream[m][i], r)])

\* t = t.on_<m>(input) as a step of a recorded run, the state functions
\* being any the compiler accepts
Step(m) ==
    /\ tpc = "compiled"
    /\ Len(trace) <= MaxRun
    /\ m \in DOMAIN stream
    /\ \E r \in Returns(stream[m][SelectArm(stream[m], t)]) :
          Stepped(m, SelectArm(stream[m], t), r)
    /\ UNCHANGED <<block, tpc, stream, dot, rs>>
    /\ UNCHANGED mvars
    /\ UNCHANGED xvars

RunNext ==
    \/ transitions
    \/ \E m \in Messages : Step(m)

RunSpec == RunInit /\ [][RunNext]_vars

\* The n-th record of the run is a message with no declared edge from the
\* variant that was active when it was dispatched
Missed(n) == ~HasEdge(trace[n - 1].to.variant, trace[n].msg.name)

\* The edge (s, m) the dispatch takes: the first one declared
EdgeTaken(s, m) ==
    CHOOSE i \in DOMAIN block :
        /\ block[i].start = s /\ block[i].message = m
        /\ \A j \in 1..(i - 1) : ~(block[j].start = s /\ block[j].message = m)

\* C23: in a machine whose edges are all single-target, started in any
\* non-Error state, after every sequence of declared messages the machine is
\* Error iff some message of the sequence had no declared edge from the
\* state active when it was dispatched; otherwise the variant after each
\* step is the declared target of the edge taken.
C23_ErrorIffUndeclared ==
    /\ t = trace[Len(trace)].to
    /\ \A n \in 2..Len(trace) :
          /\ trace[n].to.variant = "Error" <=> \E i \in 2..n : Missed(i)
          /\ (\A i \in 2..n : ~Missed(i))
                => trace[n].to.variant
                     = block[EdgeTaken(trace[n - 1].to.variant, trace[n].msg.name)].end[1]

\* Green -Advance-> Orange -PassCar-> Green, and PassCar, which has no edge
\* from Green, gives Error
C23_Witness ==
    /\ block = <<Edge("Green", "Advance", <<"Orange">>),
                 Edge("Orange", "PassCar", <<"Green">>)>>
    /\ Len(trace) = 4
    /\ trace[1].to = green(0)
    /\ trace[2] = [msg |-> [name |-> "Advance", count |-> 0], to |-> orange]
    /\ trace[3] = [msg |-> [name |-> "PassCar", count |-> 0], to |-> green(1)]
    /\ trace[4] = [msg |-> [name |-> "PassCar", count |-> 0], to |-> error]
    /\ t = error

====
